---------------------------- MODULE Spec2Model ----------------------------
(***************************************************************************)
(* Model of vermouth/processors/apply_rubber_band.py: the rubber band      *)
(* elastic network processor.                                              *)
(*                                                                         *)
(* Numbers.  Coordinates, distances, bounds, rates and powers are small    *)
(* integers.  Positions are points of a 1-dimensional space, so that the   *)
(* Euclidean distance sqrt((a-b)^2) is an integer.  The decay factor and   *)
(* the force constants are fixed-point numbers with FixedOne units per 1.  *)
(*                                                                         *)
(* Node keys.  A node key is an integer k; the molecule's keyKind says     *)
(* whether its keys are the python ints k or the python strings str(k).    *)
(*                                                                         *)
(* Four specifications: Spec calls apply_rubber_band on a molecule;        *)
(* SpecConn, SpecPair and SpecDecay call build_connectivity_matrix,        *)
(* build_pair_matrix and compute_decay on their own arguments.             *)
(***************************************************************************)
EXTENDS Integers, Sequences, FiniteSets, TLC

(* ----------------------------- bounds ---------------------------------- *)
\* the largest number of nodes of a graph
MaxNodes == 3
\* the largest number of calls of apply_rubber_band on one molecule
MaxCalls == 2

(* --------------------------- value sets -------------------------------- *)
Keys == 0 .. (MaxNodes - 1)
None == << >>

VARIABLES
    nodes,          \* graph.nodes: the node keys in iteration order
    edges,          \* graph edges: a set of sets {a, b} ({a} is a self loop)
    attrs,          \* node key -> attribute dictionary
    keyKind,        \* "int" or "str": the python type of the node keys
    interactions,   \* molecule.interactions['bonds']
    settings,       \* the parameter values the caller passes to apply_rubber_band
    last,           \* the last call of apply_rubber_band: arguments and outcome
    calls,          \* number of calls of apply_rubber_band so far
    conn,           \* the last call of build_connectivity_matrix
    pair,           \* the last call of build_pair_matrix
    decay           \* the last call of compute_decay

vars == <<nodes, edges, attrs, keyKind, interactions, settings, last, calls,
          conn, pair, decay>>

(* ------------------------- generic helpers ----------------------------- *)
Range(s) == {s[i] : i \in DOMAIN s}

IsInjective(s) == \A i, j \in DOMAIN s : i /= j => s[i] /= s[j]

FillDiagonal(m, v) ==
    [i \in DOMAIN m |-> [j \in DOMAIN m[i] |-> IF i = j THEN v ELSE m[i][j]]]

\* the subsequence of seq whose elements are in keep, in seq's order
RECURSIVE SelectSeqIn(_, _)
SelectSeqIn(seq, keep) ==
    IF seq = << >> THEN << >>
    ELSE LET rest == SelectSeqIn(Tail(seq), keep)
         IN IF Head(seq) \in keep THEN <<Head(seq)>> \o rest ELSE rest

(* --------------------------- numerics ---------------------------------- *)
FixedOne == 1000

\* np.sqrt on a non-negative integer: exact on perfect squares
Sqrt(x) == CHOOSE r \in 0 .. x : r * r <= x /\ (r + 1) * (r + 1) > x

RECURSIVE Pow(_, _)
Pow(b, e) == IF e = 0 THEN 1 ELSE b * Pow(b, e - 1)

\* np.exp of an integer, in fixed point: exp(0) = 1, exp(-1) ~ 0.368, exp(1) ~ 2.718
RECURSIVE Exp(_)
Exp(x) ==
    IF x = 0 THEN FixedOne
    ELSE IF x < 0 THEN (Exp(x + 1) * 368) \div FixedOne
    ELSE (Exp(x - 1) * 2718) \div FixedOne

\* numpy.ndarray.round(5): the nearest multiple of 10^-5; d is integer-valued,
\* so d * 10^5 is already an integer and nothing is cut
Round5(d) == (d * 100000) \div 100000

self_distance_matrix(coordinates) ==
    [i \in DOMAIN coordinates |->
        [j \in DOMAIN coordinates |->
            Sqrt((coordinates[i][1] - coordinates[j][1])
                 * (coordinates[i][1] - coordinates[j][1]))]]

compute_decay(distance, shift, rate, power) ==
    Exp((0 - rate) * Pow(distance - shift, power))

compute_force_constants(distance_matrix, lower_bound, upper_bound, decay_factor, decay_power, base_constant, minimum_force) ==
    LET n  == Len(distance_matrix)
        \* constants = compute_decay(distance_matrix, ...)
        c1 == [i \in 1 .. n |-> [j \in 1 .. n |->
                 compute_decay(distance_matrix[i][j], lower_bound,
                               decay_factor, decay_power)]]
        \* np.fill_diagonal(constants, 0)
        c2 == FillDiagonal(c1, 0)
        \* constants *= base_constant
        c3 == [i \in 1 .. n |-> [j \in 1 .. n |-> c2[i][j] * base_constant]]
        \* constants[constants < minimum_force] = 0
        c4 == [i \in 1 .. n |-> [j \in 1 .. n |->
                 IF c3[i][j] < minimum_force * FixedOne THEN 0 ELSE c3[i][j]]]
        \* constants[distance_matrix > upper_bound] = 0
        c5 == [i \in 1 .. n |-> [j \in 1 .. n |->
                 IF distance_matrix[i][j] > upper_bound THEN 0 ELSE c4[i][j]]]
    IN c5

(* ------------------------- graph queries ------------------------------- *)
\* a graph is a record [nodes, edges, attrs, keyKind]
Neighbours(G, k) == {m \in Range(G.nodes) : {k, m} \in G.edges}

\* the nodes at most d edges away from src (src included)
RECURSIVE Within(_, _, _)
Within(G, src, d) ==
    IF d = 0 THEN {src}
    ELSE LET w == Within(G, src, d - 1)
         IN w \cup UNION {Neighbours(G, k) : k \in w}

HasPath(G, left, right) == right \in Within(G, left, Len(G.nodes))

\* len(nx.shortest_path(graph, left, right)): the number of nodes of the path
ShortestPathNodes(G, left, right) ==
    1 + (CHOOSE d \in 0 .. Len(G.nodes) :
            /\ right \in Within(G, left, d)
            /\ \A e \in 0 .. (d - 1) : right \notin Within(G, left, e))

are_connected(G, left, right, separation) ==
    IF ~HasPath(G, left, right) THEN FALSE
    ELSE ShortestPathNodes(G, left, right) <= separation + 2

\* nx.all_pairs_shortest_path_length(graph, cutoff): origin -> reached targets
all_pairs_shortest_path_length(G, cutoff) ==
    [origin \in Range(G.nodes) |-> Within(G, origin, cutoff)]

(* a selection argument: python None, or a list of node keys *)
NoSelection == [none |-> TRUE, keys |-> << >>]
ListSelection(keys) == [none |-> FALSE, keys |-> keys]

\* whether numpy accepts the node key as an index of an axis of length size
ValidIndex(G, k, size) == G.keyKind = "int" /\ k >= 0 /\ k < size

build_connectivity_matrix(G, separation, selection) ==
    IF separation < 0 THEN [error |-> "ValueError", matrix |-> << >>]
    ELSE IF separation = 0 THEN
        \* nx.to_numpy_matrix(graph, nodelist=selection).astype(bool)
        LET nodelist == IF selection.none THEN G.nodes ELSE selection.keys
        IN [error |-> "none",
            matrix |-> [a \in DOMAIN nodelist |->
                          [b \in DOMAIN nodelist |->
                              {nodelist[a], nodelist[b]} \in G.edges]]]
    ELSE
        LET size == Len(G.nodes)
            distance_pairs == all_pairs_shortest_path_length(G, separation + 1)
            \* filled by graph position (correspondence), then the diagonal cleared
            connectivity ==
                FillDiagonal(
                    [i \in 1 .. size |->
                        [j \in 1 .. size |->
                            G.nodes[j] \in distance_pairs[G.nodes[i]]]],
                    FALSE)
            keys == selection.keys
        IN IF selection.none THEN [error |-> "none", matrix |-> connectivity]
           ELSE IF \E a \in DOMAIN keys : ~ValidIndex(G, keys[a], size)
           THEN [error |-> "IndexError", matrix |-> << >>]
           \* connectivity[:, selection][selection]: the keys used as indices
           ELSE [error |-> "none",
                 matrix |-> [a \in DOMAIN keys |->
                               [b \in DOMAIN keys |->
                                   connectivity[keys[a] + 1][keys[b] + 1]]]]

(* ------------------------ domain criteria ------------------------------ *)
always_true == [name |-> "always_true", rel |-> {}]
same_chain_criterion == [name |-> "same_chain", rel |-> {}]
Custom(rel) == [name |-> "custom", rel |-> rel]

same_chain(G, left, right) == G.attrs[left].chain = G.attrs[right].chain

Criterion(c, G, left, right) ==
    IF c.name = "always_true" THEN TRUE
    ELSE IF c.name = "same_chain" THEN same_chain(G, left, right)
    ELSE <<left, right>> \in c.rel

\* itertools.combinations(seq, 2), as the sequence of pairs <<earlier, later>>
RECURSIVE Combinations(_)
Combinations(seq) ==
    IF Len(seq) < 2 THEN << >>
    ELSE [i \in 1 .. (Len(seq) - 1) |-> <<seq[1], seq[i + 1]>>]
         \o Combinations(Tail(seq))

build_pair_matrix(G, criterion, selection) ==
    LET size == IF selection.none THEN Len(G.nodes) ELSE Len(selection.keys)
        selected_nodes == IF selection.none THEN G.nodes
                          ELSE SelectSeqIn(G.nodes, Range(selection.keys))
        count == Len(selected_nodes)
        \* share_domain[idx, jdx] for idx < jdx, mirrored; zero elsewhere
        Entry(i, j) ==
            IF i = j \/ i > count \/ j > count THEN FALSE
            ELSE IF i < j
                 THEN Criterion(criterion, G, selected_nodes[i], selected_nodes[j])
                 ELSE Criterion(criterion, G, selected_nodes[j], selected_nodes[i])
    IN [matrix |-> [i \in 1 .. size |-> [j \in 1 .. size |-> Entry(i, j)]],
        evaluated |-> Combinations(selected_nodes)]

(* ------------------------- apply_rubber_band --------------------------- *)
GraphOf(n, e, a, k) == [nodes |-> n, edges |-> e, attrs |-> a, keyKind |-> k]

\* selector(attributes): the callback's verdict is the node's 'selected' attribute
selector(attributes) == attributes.selected

\* Molecule.add_interaction(type_='bonds', ...): appends to interactions['bonds']
add_interaction(bonds, atoms, parameters, meta) ==
    Append(bonds, [atoms |-> atoms, parameters |-> parameters, meta |-> meta])

\* zip(*np.triu_indices_from(constants)): row after row, the diagonal included
RECURSIVE TriuFrom(_, _, _)
TriuFrom(n, i, j) ==
    IF i > n THEN << >>
    ELSE IF j > n THEN TriuFrom(n, i + 1, i + 1)
    ELSE <<(<<i, j>>)>> \o TriuFrom(n, i, j + 1)

triu_indices_from(m) == TriuFrom(Len(m), 1, 1)

\* ' '.join(missing) accepts strings only
JoinAccepts(G, missing) == G.keyKind = "str"

\* the test of line 326, on fixed-point force constants
KeepsGe(force_constant, minimum_force) == force_constant >= minimum_force * FixedOne

Keeps(force_constant, minimum_force) == force_constant > minimum_force * FixedOne

\* a variant of the call of lines 327-332 that skips a bond already present
EmitBondOnce(bonds, from_key, to_key, bond_type, length, force_constant) ==
    IF \E i \in DOMAIN bonds :
          bonds[i] = [atoms |-> <<from_key, to_key>>,
                      parameters |-> <<bond_type, length, force_constant>>,
                      meta |-> "Rubber band"]
    THEN bonds
    ELSE add_interaction(bonds, <<from_key, to_key>>,
                         <<bond_type, length, force_constant>>, "Rubber band")

EmitBond(bonds, from_key, to_key, bond_type, length, force_constant) ==
    add_interaction(bonds, <<from_key, to_key>>,
                    <<bond_type, length, force_constant>>, "Rubber band")

RECURSIVE EmitLoop(_, _, _, _, _, _)
EmitLoop(bonds, pairs, selection, constants, distance_matrix, args) ==
    IF pairs = << >> THEN bonds
    ELSE LET from_idx == Head(pairs)[1]
             to_idx == Head(pairs)[2]
             from_key == selection[from_idx]
             to_key == selection[to_idx]
             force_constant == constants[from_idx][to_idx]
             length == distance_matrix[from_idx][to_idx]
             next == IF Keeps(force_constant, args.minimum_force)
                     THEN EmitBond(bonds, from_key, to_key, args.bond_type,
                                   length, force_constant)
                     ELSE bonds
         IN EmitLoop(next, Tail(pairs), selection, constants, distance_matrix, args)

Raise(type, message, named, bonds) ==
    [error |-> type, message |-> message, named |-> named, bonds |-> bonds]

Selected(G) == SelectSeqIn(G.nodes, {k \in Range(G.nodes) : selector(G.attrs[k])})

Missing(G) ==
    SelectSeqIn(G.nodes, {k \in Range(G.nodes) :
                             selector(G.attrs[k]) /\ G.attrs[k].position = None})

\* the body of apply_rubber_band from the distance matrix on: the new bonds
LinkAndEmit(G, bonds, args, selection, connected) ==
    LET coordinates == [i \in DOMAIN selection |-> G.attrs[selection[i]].position]
        distance_matrix == self_distance_matrix(coordinates)
        constants == compute_force_constants(distance_matrix, args.lower_bound,
                         args.upper_bound, args.decay_factor, args.decay_power,
                         args.base_constant, args.minimum_force)
        same_domain == build_pair_matrix(G, args.domain_criterion,
                                         ListSelection(selection)).matrix
        n == Len(selection)
        can_be_linked == [i \in 1 .. n |-> [j \in 1 .. n |->
                            (~connected[i][j]) /\ same_domain[i][j]]]
        \* constants *= can_be_linked
        masked == [i \in 1 .. n |-> [j \in 1 .. n |->
                     IF can_be_linked[i][j] THEN constants[i][j] ELSE 0]]
        rounded == [i \in 1 .. n |-> [j \in 1 .. n |-> Round5(distance_matrix[i][j])]]
    IN EmitLoop(bonds, triu_indices_from(masked), selection, masked, rounded, args)

apply_rubber_band(G, bonds, args) ==
    LET selection == Selected(G)
        missing == Missing(G)
    IN IF missing /= << >> THEN
           IF JoinAccepts(G, missing)
           THEN Raise("ValueError", "atoms without coordinates", missing, bonds)
           ELSE Raise("TypeError", "join: expected str", << >>, bonds)
       ELSE IF selection = << >> THEN
           Raise("ValueError", "need at least one array to stack", << >>, bonds)
       ELSE LET connected == build_connectivity_matrix(G, args.res_min_dist - 1,
                                                      ListSelection(selection))
            IN IF connected.error /= "none"
               THEN Raise(connected.error, "build_connectivity_matrix", << >>, bonds)
               ELSE Raise("none", "", << >>,
                          LinkAndEmit(G, bonds, args, selection, connected.matrix))

(* ------------------------------ states --------------------------------- *)
Graph == GraphOf(nodes, edges, attrs, keyKind)

NoCall == [called |-> FALSE]

\* every list of distinct node keys, at most MaxNodes long
KeyLists == {s \in UNION {[1 .. n -> Keys] : n \in 0 .. MaxNodes} : IsInjective(s)}

\* the keys 0 .. n-1, inserted in the graph starting from key r
Rotation(n, r) == [i \in 1 .. n |-> (i - 1 + r) % n]
Rotations == {Rotation(n, r) : n \in 0 .. MaxNodes, r \in {0, 1}}

\* the bonds of a linear polymer: between keys k and k+1
BackboneEdges(order) == {{k, k + 1} : k \in {m \in Range(order) : m + 1 \in Range(order)}}

\* any edge between two nodes, and any self loop
AnyEdges(order) == {{a, b} : a, b \in Range(order)}

ChainOf(k) == IF k = 0 THEN "A" ELSE "none"

\* a node: not selected, selected without a position, or selected at x = key
NodeStates(k) ==
    {[selected |-> FALSE, position |-> None, chain |-> ChainOf(k)],
     [selected |-> TRUE, position |-> None, chain |-> ChainOf(k)],
     [selected |-> TRUE, position |-> <<k>>, chain |-> ChainOf(k)]}

AttrMaps(order) == {a \in [Range(order) -> UNION {NodeStates(k) : k \in Range(order)}] :
                       \A k \in Range(order) : a[k] \in NodeStates(k)}

PlainAttrs(order) ==
    [k \in Range(order) |-> [selected |-> TRUE, position |-> <<k>>, chain |-> ChainOf(k)]]

\* the parameter values of ApplyRubberBand.__init__
Settings ==
    [lower_bound : {0}, upper_bound : {1},
     decay_factor : {0, 1}, decay_power : {1},
     base_constant : {2}, minimum_force : {-1, 0, 1, 2},
     bond_type : {6}]

DefaultSettings ==
    [lower_bound |-> 0, upper_bound |-> 1, decay_factor |-> 0, decay_power |-> 1,
     base_constant |-> 2, minimum_force |-> 1, bond_type |-> 6]

Idle ==
    /\ interactions = << >>
    /\ last = NoCall
    /\ calls = 0
    /\ conn = NoCall
    /\ pair = NoCall
    /\ decay = NoCall

(* a molecule: a backbone whose nodes are selected or not, placed or not *)
Init ==
    /\ nodes \in Rotations
    /\ edges \in SUBSET BackboneEdges(nodes)
    /\ attrs \in AttrMaps(nodes)
    /\ keyKind \in {"int", "str"}
    /\ settings \in Settings
    /\ Idle

\* the arguments of one call
ArgsOf(s, criterion, res_min_dist) ==
    [lower_bound |-> s.lower_bound, upper_bound |-> s.upper_bound,
     decay_factor |-> s.decay_factor, decay_power |-> s.decay_power,
     base_constant |-> s.base_constant, minimum_force |-> s.minimum_force,
     bond_type |-> s.bond_type, domain_criterion |-> criterion,
     res_min_dist |-> res_min_dist]

\* an exception that reaches the caller ends the run
Running == IF last.called THEN last.error = "none" ELSE TRUE

ApplyRubberBand ==
    /\ calls < MaxCalls
    /\ Running
    /\ \E criterion \in {always_true, same_chain_criterion}, res_min_dist \in {1, 2} :
         LET args == ArgsOf(settings, criterion, res_min_dist)
             r == apply_rubber_band(Graph, interactions, args)
         IN /\ interactions' = r.bonds
            /\ last' = [called |-> TRUE, args |-> args, error |-> r.error,
                        message |-> r.message, named |-> r.named,
                        before |-> Len(interactions),
                        first |-> IF last.called THEN last.first ELSE Len(r.bonds),
                        same |-> IF last.called THEN last.same /\ last.args = args
                                 ELSE TRUE]
    /\ calls' = calls + 1
    /\ UNCHANGED <<nodes, edges, attrs, keyKind, settings, conn, pair, decay>>

Next == ApplyRubberBand

Spec == Init /\ [][Next]_vars

(* ----------------- build_connectivity_matrix on its own ---------------- *)
Selections == {NoSelection}
              \cup {ListSelection(s) : s \in {t \in KeyLists : Range(t) \subseteq Range(nodes)}}

InitConn ==
    /\ nodes \in KeyLists
    /\ edges \in SUBSET AnyEdges(nodes)
    /\ attrs = PlainAttrs(nodes)
    /\ keyKind \in {"int", "str"}
    /\ settings = DefaultSettings
    /\ Idle

CallBuildConnectivityMatrix ==
    /\ ~conn.called
    /\ \E separation \in -1 .. 2, selection \in Selections :
         LET r == build_connectivity_matrix(Graph, separation, selection)
         IN conn' = [called |-> TRUE, separation |-> separation, selection |-> selection,
                     error |-> r.error, matrix |-> r.matrix]
    /\ UNCHANGED <<nodes, edges, attrs, keyKind, interactions, settings, last, calls,
                   pair, decay>>

NextConn == CallBuildConnectivityMatrix

SpecConn == InitConn /\ [][NextConn]_vars

(* --------------------- build_pair_matrix on its own -------------------- *)
InitPair ==
    /\ nodes \in KeyLists
    /\ edges = {}
    /\ attrs = PlainAttrs(nodes)
    /\ keyKind = "int"
    /\ settings = DefaultSettings
    /\ Idle

Criteria ==
    {always_true, same_chain_criterion}
    \cup {Custom(rel) : rel \in SUBSET {p \in Range(nodes) \X Range(nodes) : p[1] /= p[2]}}

CallBuildPairMatrix ==
    /\ ~pair.called
    /\ \E criterion \in Criteria, selection \in Selections :
         LET r == build_pair_matrix(Graph, criterion, selection)
         IN pair' = [called |-> TRUE, criterion |-> criterion, selection |-> selection,
                     matrix |-> r.matrix, evaluated |-> r.evaluated]
    /\ UNCHANGED <<nodes, edges, attrs, keyKind, interactions, settings, last, calls,
                   conn, decay>>

NextPair == CallBuildPairMatrix

SpecPair == InitPair /\ [][NextPair]_vars

(* ------------------------ compute_decay on its own --------------------- *)
InitDecay ==
    /\ nodes = << >>
    /\ edges = {}
    /\ attrs = << >>
    /\ keyKind = "int"
    /\ settings = DefaultSettings
    /\ Idle

CallComputeDecay ==
    /\ ~decay.called
    /\ \E distance \in 0 .. 3, shift \in 0 .. 2, rate \in 0 .. 2, power \in 0 .. 2 :
         decay' = [called |-> TRUE, distance |-> distance, shift |-> shift,
                   rate |-> rate, power |-> power,
                   result |-> compute_decay(distance, shift, rate, power)]
    /\ UNCHANGED <<nodes, edges, attrs, keyKind, interactions, settings, last, calls,
                   conn, pair>>

NextDecay == CallComputeDecay

SpecDecay == InitDecay /\ [][NextDecay]_vars

(* ============================== claims ================================= *)
Succeeded == last.called /\ last.error = "none"

\* the bonds the last call appended
NewBonds == SubSeq(interactions, last.before + 1, Len(interactions))

CountAtoms(bonds, atoms) == Cardinality({i \in DOMAIN bonds : bonds[i].atoms = atoms})

CountBond(bonds, bond) == Cardinality({i \in DOMAIN bonds : bonds[i] = bond})

Abs(x) == IF x < 0 THEN 0 - x ELSE x

\* the masked force constant of the pair at positions i, j of the selection,
\* computed for that pair alone
MaskedConstant(args, sel, i, j) ==
    LET d == Abs(attrs[sel[i]].position[1] - attrs[sel[j]].position[1])
        c == args.base_constant
             * compute_decay(d, args.lower_bound, args.decay_factor, args.decay_power)
        connected == build_connectivity_matrix(Graph, args.res_min_dist - 1,
                                               ListSelection(sel)).matrix
    IN IF \/ c < args.minimum_force * FixedOne
          \/ d > args.upper_bound
          \/ connected[i][j]
          \/ ~Criterion(args.domain_criterion, Graph, sel[i], sel[j])
       THEN 0
       ELSE c

C2_MissingNamed ==
    (last.called /\ Missing(Graph) /= << >>) =>
        /\ last.error /= "none"
        /\ last.named = Missing(Graph)
        /\ NewBonds = << >>

\* C3: when the selector accepts no node, the call returns normally and appends
\* nothing.
C3_EmptySelectionReturns ==
    (last.called /\ Selected(Graph) = << >>) =>
        /\ last.error = "none"
        /\ NewBonds = << >>

\* the rows of the matrix a call was asked for
AskedKeys(call) == IF call.selection.none THEN nodes ELSE call.selection.keys

\* C4: for a separation >= 0, build_connectivity_matrix returns a matrix over the
\* selection's order whose entry [a][b], a /= b, is true iff the shortest path
\* between selection[a] and selection[b] has at most separation + 1 edges.
C4_ShortestPathMatrix ==
    (conn.called /\ conn.separation >= 0) =>
        /\ conn.error = "none"
        /\ LET sel == AskedKeys(conn)
           IN /\ Len(conn.matrix) = Len(sel)
              /\ \A a, b \in DOMAIN sel :
                    a /= b => conn.matrix[a][b]
                                = are_connected(Graph, sel[a], sel[b], conn.separation)

\* C5: every diagonal entry of the matrix build_connectivity_matrix returns is
\* false.
C5_DiagonalFalse ==
    (conn.called /\ conn.error = "none") =>
        \A a \in DOMAIN conn.matrix : ~conn.matrix[a][a]

\* C6: compute_decay returns exactly 1 whenever rate is 0 and whenever power is 0.
C6_ZeroDisablesDecay ==
    (decay.called /\ (decay.rate = 0 \/ decay.power = 0)) => decay.result = FixedOne

\* C7: for a selection that is a list of distinct node keys, build_pair_matrix
\* returns a matrix in the selection's order: entry [a][b], a /= b, is the
\* predicate on the pair selection[a], selection[b], the matrix is symmetric,
\* its diagonal is false, and the predicate is evaluated once per unordered
\* pair of distinct selected nodes and never on a node against itself.
C7_PairMatrixInSelectionOrder ==
    (pair.called /\ ~pair.selection.none) =>
        LET sel == pair.selection.keys
            ev == pair.evaluated
        IN /\ Len(pair.matrix) = Len(sel)
           /\ \A a, b \in DOMAIN sel :
                 IF a = b THEN ~pair.matrix[a][b]
                 ELSE /\ pair.matrix[a][b] = pair.matrix[b][a]
                      /\ \/ pair.matrix[a][b]
                              = Criterion(pair.criterion, Graph, sel[a], sel[b])
                         \/ pair.matrix[a][b]
                              = Criterion(pair.criterion, Graph, sel[b], sel[a])
           /\ \A e \in DOMAIN ev : ev[e][1] /= ev[e][2]
           /\ \A a, b \in DOMAIN sel :
                 a < b => Cardinality({e \in DOMAIN ev :
                                          {ev[e][1], ev[e][2]} = {sel[a], sel[b]}}) = 1

\* C8: no bond a call appends has the same node key as both of its atoms.
C8_NoSelfBond ==
    Succeeded =>
        \A i \in DOMAIN NewBonds : NewBonds[i].atoms[1] /= NewBonds[i].atoms[2]

\* C9: with minimum_force >= 0 and res_min_dist >= 1, a bond is appended for a
\* pair only if the graph has no path between the two nodes or their shortest
\* path has more than res_min_dist edges.
C9_OnlySeparatedPairs ==
    (Succeeded /\ last.args.minimum_force >= 0 /\ last.args.res_min_dist >= 1) =>
        \A i \in DOMAIN NewBonds :
            ~are_connected(Graph, NewBonds[i].atoms[1], NewBonds[i].atoms[2],
                           last.args.res_min_dist - 1)

\* when every call so far had the same arguments, each bond of the first call is
\* present once per call
PresentOncePerCall ==
    last.same =>
        \A i \in 1 .. last.first : CountBond(interactions, interactions[i]) = calls

\* C10: a call that completes leaves the bonds already in the molecule in place
\* and in order, leaves nodes, edges and attributes unchanged, and after k
\* successful calls with the same arguments each bond of the first call is
\* present exactly k times.
C10_AppendOnly ==
    [][(calls' = calls + 1 /\ last'.error = "none") =>
          /\ Len(interactions') >= Len(interactions)
          /\ SubSeq(interactions', 1, Len(interactions)) = interactions
          /\ UNCHANGED <<nodes, edges, attrs, keyKind>>
          /\ PresentOncePerCall']_vars

\* two successful calls with the same arguments, the first of which appended bonds
C10_Witness ==
    /\ Succeeded
    /\ calls = 2
    /\ last.same
    /\ last.first > 0
    /\ Len(interactions) = 2 * last.first

=============================================================================
